---- MODULE Spec2Model ----
(***************************************************************************)
(* The COVID-19 Streamlit application in its two variants,                 *)
(* app-20241118-a.py and app-20241118-b.py.  Each variant is a script that *)
(* Streamlit executes from top to bottom on every (re)run: it loads the    *)
(* case records and the country polygons through cached loaders, filters,  *)
(* projects, aggregates by date and by country, left-joins the polygons    *)
(* with the per-country aggregate, fills missing values with zero and      *)
(* colours the polygons.                                                   *)
(*                                                                         *)
(* The two variants are independent programs that share nothing but the    *)
(* input files, so they are run here side by side on the same files: every *)
(* variable of a script is a function over Variantes and every action      *)
(* executes one section of both scripts.                                   *)
(*                                                                         *)
(* A string is compared through the tuple of its characters (Chars), so    *)
(* that startswith and the lexicographic <= of Python strings are          *)
(* computed, not assumed.  A float cell is NaN (the empty tuple) or <<n>>. *)
(***************************************************************************)
EXTENDS Integers, Sequences, FiniteSets, TLC

\* ----- Bounds of the model -----

\* Largest number of rows of the case-record file.
MaxFilas == 2
\* Largest number of polygons of the country file.
MaxPaises == 2

\* ----- Strings -----

Variantes == {"a", "b"}

\* Code points of the characters that occur in the model's strings.
Ord(c) ==
    CASE c = "-" -> 45
      [] c = "0" -> 48 [] c = "1" -> 49 [] c = "2" -> 50 [] c = "3" -> 51
      [] c = "4" -> 52 [] c = "5" -> 53 [] c = "6" -> 54 [] c = "7" -> 55
      [] c = "8" -> 56 [] c = "9" -> 57
      [] c = "A" -> 65 [] c = "D" -> 68 [] c = "I" -> 73 [] c = "L" -> 76
      [] c = "O" -> 79 [] c = "R" -> 82 [] c = "S" -> 83 [] c = "U" -> 85
      [] c = "W" -> 87 [] c = "_" -> 95
      [] c = "a" -> 97 [] c = "s" -> 115 [] c = "u" -> 117

\* The characters of the strings of the model.
Chars(s) ==
    CASE s = "USA" -> <<"U","S","A">>
      [] s = "usa" -> <<"u","s","a">>
      [] s = "OWID" -> <<"O","W","I","D">>
      [] s = "OWID_WRL" -> <<"O","W","I","D","_","W","R","L">>
      [] s = "2024-07-31" -> <<"2","0","2","4","-","0","7","-","3","1">>
      [] s = "2024-08-04" -> <<"2","0","2","4","-","0","8","-","0","4">>
      [] s = "2024-08-05" -> <<"2","0","2","4","-","0","8","-","0","5">>

\* Lexicographic order of two tuples of characters, by code point.
RECURSIVE LexLt(_, _)
LexLt(s, t) ==
    IF t = <<>> THEN FALSE
    ELSE IF s = <<>> THEN TRUE
    ELSE IF Head(s) = Head(t) THEN LexLt(Tail(s), Tail(t))
    ELSE Ord(Head(s)) < Ord(Head(t))

\* Python's s < t on strings.
StrLt(s, t) == LexLt(Chars(s), Chars(t))

\* Python's s <= t on strings.
StrLeq(s, t) == s = t \/ StrLt(s, t)

\* Python's s.startswith(p).
StartsWith(s, p) ==
    /\ Len(Chars(p)) <= Len(Chars(s))
    /\ SubSeq(Chars(s), 1, Len(Chars(p))) = Chars(p)

\* ----- Float cells -----

NaN == <<>>
Num(n) == <<n>>
IsNaN(x) == x = NaN
Val(x) == x[1]

\* ----- Program constants -----

\* FECHA_MAXIMA_DATOS_COVID = '2024-08-04' (FECHA_MAXIMA in variant a).
FECHA_MAXIMA_DATOS_COVID == "2024-08-04"

\* The literal 'OWID' of variant b's second filter.
OWID == "OWID"

\* ----- Input domain -----

\* iso_code values of the case-record file: a country and a pseudo-region.
CodigosCovid == {"USA", "OWID_WRL"}
\* date values up to the maximum date: before it, and the date itself.
FechasDentro == {"2024-07-31", "2024-08-04"}
\* total_cases values: missing, or a count.
CasosCovid == {NaN, Num(1), Num(2)}
\* ADM0_ISO values of the country file: a code of the case records, the same
\* code in lower case, and a code with the prefix of the pseudo-regions.
CodigosPaises == {"USA", "usa", "OWID_WRL"}

\* location is the name that goes with the code.
Location(c) == IF c = "USA" THEN "United States" ELSE "World"

\* A row of the case-record file.  The file has more columns than the five
\* the application uses; new_cases stands for them.
Fila(c, f, n) ==
    [iso_code |-> c, location |-> Location(c), date |-> f,
     total_cases |-> n, total_deaths |-> NaN, new_cases |-> NaN]

\* The rows a case-record file may hold: every code, date up to the maximum
\* date and count, and for every code a row dated after the maximum date.
FilasCovid ==
    { Fila(c, f, n) : c \in CodigosCovid, f \in FechasDentro, n \in CasosCovid }
    \cup { Fila(c, "2024-08-05", Num(2)) : c \in CodigosCovid }

SeqHasta(S, n) == UNION { [1..k -> S] : k \in 0..n }

\* The sequences of SeqHasta(S, n) that hold no element twice.
SeqSinRepetir(S, n) ==
    { q \in SeqHasta(S, n) : \A i, j \in 1..Len(q) : q[i] = q[j] => i = j }

\* The country file: one row per polygon, each with a code of its own;
\* geometry is opaque and is here the polygon's position in the file.
ArchivoPaises(codigos) ==
    [i \in 1..Len(codigos) |-> [ADM0_ISO |-> codigos[i], geometry |-> i]]

\* ----- Stored state -----

VARIABLES
    csv,                      \* content of the case-record file
    gpkg,                     \* content of the country file
    pc,                       \* the section of the scripts that runs next
    cache_covid,              \* st.cache_data of cargar_datos_covid, per variant
    cache_paises,             \* st.cache_data of cargar_datos_paises, per variant
    datos,                    \* the scripts' variable datos
    paises,                   \* the scripts' variable paises
    casos_totales_por_fecha,  \* the by-date aggregate (what the line chart was given)
    casos_totales_por_pais,   \* the by-country aggregate
    paleta_colores,           \* the colour scale (colormap in variant a)
    mapa,                     \* the features folium.GeoJson was given, styled
    anterior                  \* the outputs of the previous completed run

vars == <<csv, gpkg, pc, cache_covid, cache_paises, datos, paises,
          casos_totales_por_fecha, casos_totales_por_pais, paleta_colores,
          mapa, anterior>>

\* ----- Loaders -----

CacheVacio == [cargado |-> FALSE, valor |-> <<>>]

\* cargar_datos_covid with a cache that hands out, on a hit, a reader the
\* first run has already read to its end.
cargar_datos_covid_agotado(v) ==
    IF cache_covid[v].cargado THEN <<>> ELSE csv

\* @st.cache_data def cargar_datos_covid(): the first call reads the file,
\* later calls return a copy of what the first call returned.
cargar_datos_covid(v) ==
    IF cache_covid[v].cargado THEN cache_covid[v].valor ELSE csv

\* @st.cache_data def cargar_datos_paises().
cargar_datos_paises(v) ==
    IF cache_paises[v].cargado THEN cache_paises[v].valor ELSE gpkg

\* ----- Filtrado inicial de datos -----

\* FiltrarFecha with < in place of <=.
FiltrarFechaEstricto(d) ==
    SelectSeq(d, LAMBDA r : StrLt(r.date, FECHA_MAXIMA_DATOS_COVID))

\* datos[datos['date'] <= FECHA_MAXIMA_DATOS_COVID]: a comparison of strings.
FiltrarFecha(d) ==
    SelectSeq(d, LAMBDA r : StrLeq(r.date, FECHA_MAXIMA_DATOS_COVID))

\* FiltrarRegiones without the negation of the mask.
FiltrarRegionesSinNegar(d) ==
    SelectSeq(d, LAMBDA r : StartsWith(r.iso_code, OWID))

\* datos[~datos['iso_code'].str.startswith('OWID')]
FiltrarRegiones(d) ==
    SelectSeq(d, LAMBDA r : ~StartsWith(r.iso_code, OWID))

\* Variant a filters by date only, variant b by date and then by code.
Filtrado(v, d) ==
    IF v = "a" THEN FiltrarFecha(d) ELSE FiltrarRegiones(FiltrarFecha(d))

\* ----- Tabla -----

\* datos[columnas] followed by rename(columns=columnas_espaniol).
Proyectar(d) ==
    [i \in 1..Len(d) |->
        [Codigo_ISO |-> d[i].iso_code, Pais |-> d[i].location,
         Fecha |-> d[i].date, Casos_totales |-> d[i].total_cases,
         Muertes_totales |-> d[i].total_deaths]]

Digito(c) == Ord(c) - 48

\* pd.to_datetime(s).dt.date of a 'YYYY-MM-DD' string.
ToDate(s) ==
    LET c == Chars(s)
    IN  [year  |-> 1000 * Digito(c[1]) + 100 * Digito(c[2])
                   + 10 * Digito(c[3]) + Digito(c[4]),
         month |-> 10 * Digito(c[6]) + Digito(c[7]),
         day   |-> 10 * Digito(c[9]) + Digito(c[10])]

\* datos['Fecha'] = pd.to_datetime(datos['Fecha']).dt.date
ConvertirFecha(d) ==
    [i \in 1..Len(d) |-> [d[i] EXCEPT !.Fecha = ToDate(d[i].Fecha)]]

\* ----- Aggregations -----

\* Order of datetime.date values.
DateLt(x, y) ==
    \/ x.year < y.year
    \/ x.year = y.year /\ x.month < y.month
    \/ x.year = y.year /\ x.month = y.month /\ x.day < y.day

\* The group keys in ascending order (groupby sorts its keys): dates.
RECURSIVE OrdenarFechas(_)
OrdenarFechas(S) ==
    IF S = {} THEN <<>>
    ELSE LET m == CHOOSE x \in S : \A y \in S : ~DateLt(y, x)
         IN  <<m>> \o OrdenarFechas(S \ {m})

\* The group keys in ascending order: strings.
RECURSIVE OrdenarCodigos(_)
OrdenarCodigos(S) ==
    IF S = {} THEN <<>>
    ELSE LET m == CHOOSE x \in S : \A y \in S : ~StrLt(y, x)
         IN  <<m>> \o OrdenarCodigos(S \ {m})

\* Series.sum(): missing values are skipped, an empty sum is 0.
RECURSIVE SumSkipNa(_)
SumSkipNa(xs) ==
    IF xs = <<>> THEN 0
    ELSE (IF IsNaN(Head(xs)) THEN 0 ELSE Val(Head(xs))) + SumSkipNa(Tail(xs))

\* Series.max(): missing values are skipped, the maximum of nothing is NaN.
RECURSIVE MaxSkipNa(_)
MaxSkipNa(xs) ==
    IF xs = <<>> THEN NaN
    ELSE LET h == Head(xs)
             r == MaxSkipNa(Tail(xs))
         IN  IF IsNaN(h) THEN r
             ELSE IF IsNaN(r) THEN h
             ELSE IF Val(h) >= Val(r) THEN h ELSE r

\* Series.min().
RECURSIVE MinSkipNa(_)
MinSkipNa(xs) ==
    IF xs = <<>> THEN NaN
    ELSE LET h == Head(xs)
             r == MinSkipNa(Tail(xs))
         IN  IF IsNaN(h) THEN r
             ELSE IF IsNaN(r) THEN h
             ELSE IF Val(h) <= Val(r) THEN h ELSE r

\* The 'Casos totales' cells of the rows of d whose column campo is clave.
CasosDelGrupo(d, campo, clave) ==
    LET g == SelectSeq(d, LAMBDA r : r[campo] = clave)
    IN  [i \in 1..Len(g) |-> g[i].Casos_totales]

\* SumaPorFecha with max() in place of sum().
MaxPorFecha(d) ==
    LET claves == OrdenarFechas({d[i].Fecha : i \in 1..Len(d)})
    IN  [k \in 1..Len(claves) |->
            [Fecha |-> claves[k],
             Casos_totales |-> MaxSkipNa(CasosDelGrupo(d, "Fecha", claves[k]))]]

\* datos.groupby('Fecha')['Casos totales'].sum().reset_index()
SumaPorFecha(d) ==
    LET claves == OrdenarFechas({d[i].Fecha : i \in 1..Len(d)})
    IN  [k \in 1..Len(claves) |->
            [Fecha |-> claves[k],
             Casos_totales |->
                 Num(SumSkipNa(CasosDelGrupo(d, "Fecha", claves[k])))]]

\* The last value of a column that is not missing (GroupBy.last()).
RECURSIVE LastSkipNa(_)
LastSkipNa(xs) ==
    IF xs = <<>> THEN NaN
    ELSE IF IsNaN(xs[Len(xs)]) THEN LastSkipNa(SubSeq(xs, 1, Len(xs) - 1))
    ELSE xs[Len(xs)]

\* MaxPorPais with last() in place of max().
UltimoPorPais(d) ==
    LET claves == OrdenarCodigos({d[i].Codigo_ISO : i \in 1..Len(d)})
    IN  [k \in 1..Len(claves) |->
            [Codigo_ISO |-> claves[k],
             Casos_totales |->
                 LastSkipNa(CasosDelGrupo(d, "Codigo_ISO", claves[k]))]]

\* datos.groupby('Código ISO')['Casos totales'].max().reset_index()
MaxPorPais(d) ==
    LET claves == OrdenarCodigos({d[i].Codigo_ISO : i \in 1..Len(d)})
    IN  [k \in 1..Len(claves) |->
            [Codigo_ISO |-> claves[k],
             Casos_totales |->
                 MaxSkipNa(CasosDelGrupo(d, "Codigo_ISO", claves[k]))]]

\* ----- Join -----

\* A missing value in a column of strings.
Nulo == "<NA>"

\* A code in upper case.
Mayusculas(s) == IF s = "usa" THEN "USA" ELSE s

\* MismaClave after normalising the case of both keys.
MismaClaveSinCaja(izq, der) == Mayusculas(izq) = Mayusculas(der)

\* The key comparison of merge: equality of the two strings.
MismaClave(izq, der) == izq = der

\* Merge with how='inner': the left rows without a match are dropped.
RECURSIVE MergeInner(_, _)
MergeInner(izq, der) ==
    IF izq = <<>> THEN <<>>
    ELSE LET p == Head(izq)
             c == SelectSeq(der, LAMBDA r : p.ADM0_ISO = r.Codigo_ISO)
         IN  [i \in 1..Len(c) |->
                 [ADM0_ISO |-> p.ADM0_ISO, geometry |-> p.geometry,
                  Codigo_ISO |-> c[i].Codigo_ISO,
                  Casos_totales |-> c[i].Casos_totales]]
             \o MergeInner(Tail(izq), der)

\* paises.merge(casos_totales_por_pais, how='left', left_on='ADM0_ISO',
\* right_on='Código ISO'): the left rows in their order, each once per
\* matching right row, or once with missing right columns when none matches.
RECURSIVE Merge(_, _)
Merge(izq, der) ==
    IF izq = <<>> THEN <<>>
    ELSE LET p == Head(izq)
             c == SelectSeq(der, LAMBDA r : MismaClave(p.ADM0_ISO, r.Codigo_ISO))
             filas ==
                 IF c = <<>>
                 THEN << [ADM0_ISO |-> p.ADM0_ISO, geometry |-> p.geometry,
                          Codigo_ISO |-> Nulo, Casos_totales |-> NaN] >>
                 ELSE [i \in 1..Len(c) |->
                          [ADM0_ISO |-> p.ADM0_ISO, geometry |-> p.geometry,
                           Codigo_ISO |-> c[i].Codigo_ISO,
                           Casos_totales |-> c[i].Casos_totales]]
         IN  filas \o Merge(Tail(izq), der)

\* FillNa left out.
SinFillNa(p) == p

\* paises['Casos totales'] = paises['Casos totales'].fillna(0)
FillNa(p) ==
    [i \in 1..Len(p) |->
        [p[i] EXCEPT !.Casos_totales = IF IsNaN(@) THEN Num(0) ELSE @]]

\* ----- Colour scale -----

\* The number of colours of the palette YlOrRd_09.
NumColores == 9

\* A colour of the scale: the palette's colour number parada, moved the
\* fraction num/den of the way towards the next one; or the error the
\* colour function raised.
Parada(k) == [error |-> FALSE, parada |-> k, num |-> 0, den |-> 1]
ErrorColor == [error |-> TRUE, parada |-> 0, num |-> 0, den |-> 1]

RECURSIVE Mcd(_, _)
Mcd(a, b) == IF b = 0 THEN a ELSE Mcd(b, a % b)

Interpolar(i, n, d) ==
    IF n = d THEN Parada(i + 1)
    ELSE [error |-> FALSE, parada |-> i,
          num |-> n \div Mcd(n, d), den |-> d \div Mcd(n, d)]

SinEscala == [vmin |-> NaN, vmax |-> NaN, index |-> <<>>]

\* linear.YlOrRd_09.scale(vmin, vmax): the palette's colours at evenly
\* spaced thresholds from vmin to vmax.  The thresholds are kept multiplied
\* by NumColores - 1, which keeps them integers.
Escala(vmin, vmax) ==
    [vmin |-> vmin, vmax |-> vmax,
     index |-> IF IsNaN(vmin) \/ IsNaN(vmax) THEN <<>>
               ELSE [k \in 1..NumColores |->
                        (NumColores - 1) * Val(vmin)
                        + (Val(vmax) - Val(vmin)) * (k - 1)]]

\* paleta_colores(x): the lowest colour at or below the first threshold, the
\* highest at or above the last, and in between the linear interpolation of
\* the two colours around x.  With all thresholds equal every x is at or
\* below the first or at or above the last, and nothing is divided.  A
\* missing x, or missing thresholds, compare false with everything: the
\* function then finds its thresholds unsorted and raises.
Color(e, x) ==
    LET idx == e.index
    IN  IF idx = <<>> THEN ErrorColor
        ELSE IF IsNaN(x)
        THEN IF idx[NumColores] = idx[1] THEN Parada(1) ELSE ErrorColor
        ELSE LET xn == (NumColores - 1) * Val(x)
             IN  IF xn <= idx[1] THEN Parada(1)
                 ELSE IF xn >= idx[NumColores] THEN Parada(NumColores)
                 ELSE LET i == Cardinality({k \in 1..NumColores : idx[k] < xn})
                      IN  IF idx[i] < idx[i + 1]
                          THEN Interpolar(i, xn - idx[i], idx[i + 1] - idx[i])
                          ELSE IF idx[i] = idx[i + 1] THEN Parada(i + 1)
                          ELSE ErrorColor

\* The column 'Casos totales' of the joined table.
ColumnaCasos(p) == [i \in 1..Len(p) |-> p[i].Casos_totales]

\* linear.YlOrRd_09.scale(paises['Casos totales'].min(), paises['Casos totales'].max())
CrearPaleta(p) == Escala(MinSkipNa(ColumnaCasos(p)), MaxSkipNa(ColumnaCasos(p)))

\* Estilizar with a style function that colours a feature by its position
\* in the table instead of its 'Casos totales'.
EstilizarPorPosicion(p, e) ==
    [i \in 1..Len(p) |->
        [ADM0_ISO |-> p[i].ADM0_ISO, geometry |-> p[i].geometry,
         Casos_totales |-> p[i].Casos_totales,
         fillColor |-> Color(e, Num(i - 1))]]

\* folium.GeoJson(paises, style_function=...): each feature with the colour
\* the style function gives it, and the two fields of its tooltip.
Estilizar(p, e) ==
    [i \in 1..Len(p) |->
        [ADM0_ISO |-> p[i].ADM0_ISO, geometry |-> p[i].geometry,
         Casos_totales |-> p[i].Casos_totales,
         fillColor |-> Color(e, p[i].Casos_totales)]]

\* ----- The scripts, section by section -----

Todas(x) == [v \in Variantes |-> x]

SinSalida == [hay |-> FALSE, tabla |-> <<>>, grafico |-> <<>>, mapa |-> <<>>]

\* What a completed run has handed to the renderers: datos to st.dataframe,
\* casos_totales_por_fecha to the line chart, the styled features to the map.
Salida(v) ==
    [hay |-> TRUE, tabla |-> datos[v],
     grafico |-> casos_totales_por_fecha[v], mapa |-> mapa[v]]

Init ==
    /\ csv \in SeqHasta(FilasCovid, MaxFilas)
    /\ gpkg \in {ArchivoPaises(c) : c \in SeqSinRepetir(CodigosPaises, MaxPaises)}
    /\ pc = "cargar"
    /\ cache_covid = Todas(CacheVacio)
    /\ cache_paises = Todas(CacheVacio)
    /\ datos = Todas(<<>>)
    /\ paises = Todas(<<>>)
    /\ casos_totales_por_fecha = Todas(<<>>)
    /\ casos_totales_por_pais = Todas(<<>>)
    /\ paleta_colores = Todas(SinEscala)
    /\ mapa = Todas(<<>>)
    /\ anterior = Todas(SinSalida)

\* Carga de datos: datos = cargar_datos_covid(); paises = cargar_datos_paises()
Cargar ==
    /\ pc = "cargar"
    /\ datos' = [v \in Variantes |-> cargar_datos_covid(v)]
    /\ paises' = [v \in Variantes |-> cargar_datos_paises(v)]
    /\ cache_covid' = [v \in Variantes |->
                          [cargado |-> TRUE, valor |-> cargar_datos_covid(v)]]
    /\ cache_paises' = [v \in Variantes |->
                           [cargado |-> TRUE, valor |-> cargar_datos_paises(v)]]
    /\ pc' = "filtrar"
    /\ UNCHANGED <<csv, gpkg, casos_totales_por_fecha,
                   casos_totales_por_pais, paleta_colores, mapa, anterior>>

\* Filtrado inicial de datos
Filtrar ==
    /\ pc = "filtrar"
    /\ datos' = [v \in Variantes |-> Filtrado(v, datos[v])]
    /\ pc' = "tabla"
    /\ UNCHANGED <<csv, gpkg, cache_covid, cache_paises, paises,
                   casos_totales_por_fecha, casos_totales_por_pais,
                   paleta_colores, mapa, anterior>>

\* Tabla de casos totales y muertes totales por país y por día
MostrarTabla ==
    /\ pc = "tabla"
    /\ datos' = [v \in Variantes |-> ConvertirFecha(Proyectar(datos[v]))]
    /\ pc' = "grafico"
    /\ UNCHANGED <<csv, gpkg, cache_covid, cache_paises, paises,
                   casos_totales_por_fecha, casos_totales_por_pais,
                   paleta_colores, mapa, anterior>>

\* Gráfico de casos totales a lo largo del tiempo
MostrarGrafico ==
    /\ pc = "grafico"
    /\ casos_totales_por_fecha' = [v \in Variantes |-> SumaPorFecha(datos[v])]
    /\ pc' = "agrupar"
    /\ UNCHANGED <<csv, gpkg, cache_covid, cache_paises, datos, paises,
                   casos_totales_por_pais, paleta_colores, mapa, anterior>>

\* Agrupar los casos totales por país
AgruparPorPais ==
    /\ pc = "agrupar"
    /\ casos_totales_por_pais' = [v \in Variantes |-> MaxPorPais(datos[v])]
    /\ pc' = "unir"
    /\ UNCHANGED <<csv, gpkg, cache_covid, cache_paises, datos, paises,
                   casos_totales_por_fecha, paleta_colores, mapa, anterior>>

\* Unir los datos de casos con el GeoDataFrame de países
Unir ==
    /\ pc = "unir"
    /\ paises' = [v \in Variantes |->
                     Merge(paises[v], casos_totales_por_pais[v])]
    /\ pc' = "fillna"
    /\ UNCHANGED <<csv, gpkg, cache_covid, cache_paises, datos,
                   casos_totales_por_fecha, casos_totales_por_pais,
                   paleta_colores, mapa, anterior>>

\* Reemplazar valores nulos por cero en 'Casos totales'
RellenarNulos ==
    /\ pc = "fillna"
    /\ paises' = [v \in Variantes |-> FillNa(paises[v])]
    /\ pc' = "paleta"
    /\ UNCHANGED <<csv, gpkg, cache_covid, cache_paises, datos,
                   casos_totales_por_fecha, casos_totales_por_pais,
                   paleta_colores, mapa, anterior>>

\* Crear una paleta de colores
Paleta ==
    /\ pc = "paleta"
    /\ paleta_colores' = [v \in Variantes |-> CrearPaleta(paises[v])]
    /\ pc' = "geojson"
    /\ UNCHANGED <<csv, gpkg, cache_covid, cache_paises, datos, paises,
                   casos_totales_por_fecha, casos_totales_por_pais, mapa,
                   anterior>>

\* Añadir los polígonos al mapa y mostrarlo
MostrarMapa ==
    /\ pc = "geojson"
    /\ mapa' = [v \in Variantes |-> Estilizar(paises[v], paleta_colores[v])]
    /\ pc' = "fin"
    /\ UNCHANGED <<csv, gpkg, cache_covid, cache_paises, datos, paises,
                   casos_totales_por_fecha, casos_totales_por_pais,
                   paleta_colores, anterior>>

\* Streamlit runs the script again (an interaction, a reload): the script's
\* variables start afresh, the st.cache_data caches stay.
Rerun ==
    /\ pc = "fin"
    /\ anterior' = [v \in Variantes |-> Salida(v)]
    /\ datos' = Todas(<<>>)
    /\ paises' = Todas(<<>>)
    /\ casos_totales_por_fecha' = Todas(<<>>)
    /\ casos_totales_por_pais' = Todas(<<>>)
    /\ paleta_colores' = Todas(SinEscala)
    /\ mapa' = Todas(<<>>)
    /\ pc' = "cargar"
    /\ UNCHANGED <<csv, gpkg, cache_covid, cache_paises>>

\* One execution of the two scripts.
Next ==
    \/ Cargar
    \/ Filtrar
    \/ MostrarTabla
    \/ MostrarGrafico
    \/ AgruparPorPais
    \/ Unir
    \/ RellenarNulos
    \/ Paleta
    \/ MostrarMapa

Spec == Init /\ [][Next]_vars

\* The scripts executed again and again.
NextRerun ==
    \/ Next
    \/ Rerun

SpecRerun == Init /\ [][NextRerun]_vars

\* ----- Properties -----

\* The sum of f over the indices in I.
RECURSIVE SumaSobre(_, _)
SumaSobre(f, I) ==
    IF I = {} THEN 0
    ELSE LET i == CHOOSE k \in I : TRUE
         IN  f[i] + SumaSobre(f, I \ {i})

\* What a 'Casos totales' cell adds to a sum: nothing when it is missing.
Aporte(x) == IF IsNaN(x) THEN 0 ELSE Val(x)

DateLeq(x, y) == x = y \/ DateLt(x, y)

\* The excluded prefix of a variant, as characters: none in variant a.
Prefijo(v) == IF v = "a" THEN <<>> ELSE <<"O","W","I","D">>

EmpiezaPor(s, pre) ==
    /\ Len(pre) <= Len(Chars(s))
    /\ \A i \in 1..Len(pre) : Chars(s)[i] = pre[i]

\* The rule of the filter: the date, as a calendar date, is not after the
\* maximum date, and the code does not start with the excluded prefix.
SeConserva(v, r) ==
    /\ DateLeq(ToDate(r.date), ToDate(FECHA_MAXIMA_DATOS_COVID))
    /\ (Prefijo(v) = <<>> \/ ~EmpiezaPor(r.iso_code, Prefijo(v)))

\* out is the subsequence of in at the indices K, in the original order.
EsSubsecuencia(out, in, K) ==
    /\ Len(out) = Cardinality(K)
    /\ \A i \in K : out[Cardinality({k \in K : k <= i})] = in[i]

\* C1: the output of the filtering step is exactly the subsequence, in the
\* original order, of the loaded records whose date is not after the maximum
\* date and whose code does not start with the variant's excluded prefix
\* (none in variant a, 'OWID' in variant b); no records in, no records out.
C1_FiltradoEsSubsecuencia ==
    pc = "tabla" =>
        \A v \in Variantes :
            EsSubsecuencia(datos[v], csv,
                           {i \in 1..Len(csv) : SeConserva(v, csv[i])})

\* A pseudo-region's row on the maximum date followed by a country's row:
\* variant a keeps both in their order, variant b the second only.
C1_Witness ==
    /\ pc = "tabla"
    /\ Len(csv) = 2
    /\ csv[1].iso_code = "OWID_WRL" /\ csv[1].date = "2024-08-04"
    /\ csv[2].iso_code = "USA"
    /\ datos["a"] = csv
    /\ datos["b"] = <<csv[2]>>

DespuesDeUnir == pc \in {"fillna", "paleta", "geojson", "fin"}

\* C2: the joined table has as many rows as the country file has polygons,
\* and every polygon is in it exactly once, whatever the case records are.
C2_UnaFilaPorPoligono ==
    DespuesDeUnir =>
        \A v \in Variantes :
            /\ Len(paises[v]) = Len(gpkg)
            /\ \A k \in 1..Len(gpkg) :
                   Cardinality({i \in 1..Len(paises[v]) :
                                  paises[v][i].geometry = gpkg[k].geometry}) = 1

\* Two polygons, one of them matched in variant a, and an empty per-country
\* aggregate in variant b.
C2_Witness ==
    /\ pc = "fillna"
    /\ Len(gpkg) = 2
    /\ casos_totales_por_pais["b"] = <<>>
    /\ \E i \in 1..Len(paises["a"]) : paises["a"][i].Codigo_ISO # Nulo

DespuesDeFillNa == pc \in {"paleta", "geojson", "fin"}

\* The rows of the per-country aggregate of variant v that have code c.
Agregados(v, c) ==
    {k \in 1..Len(casos_totales_por_pais[v]) :
        casos_totales_por_pais[v][k].Codigo_ISO = c}

\* C3 as stated: a polygon's joined value is the value of the one aggregate
\* that has exactly its code, and 0 when no aggregate has its code.
C3_ValorDelAgregado ==
    DespuesDeFillNa =>
        \A v \in Variantes : \A i \in 1..Len(paises[v]) :
            LET m == Agregados(v, paises[v][i].ADM0_ISO)
            IN  /\ m = {} => paises[v][i].Casos_totales = Num(0)
                /\ \A k \in m :
                       Cardinality(m) = 1 =>
                           paises[v][i].Casos_totales
                               = casos_totales_por_pais[v][k].Casos_totales

\* C3 as amended: a polygon's joined value is the value of the one aggregate
\* that has exactly its code when that value is not missing, and 0 when that
\* value is missing or no aggregate has its code.
C3_ValorDelAgregadoNoNulo ==
    DespuesDeFillNa =>
        \A v \in Variantes : \A i \in 1..Len(paises[v]) :
            LET m == Agregados(v, paises[v][i].ADM0_ISO)
            IN  /\ m = {} => paises[v][i].Casos_totales = Num(0)
                /\ \A k \in m :
                       Cardinality(m) = 1 =>
                           paises[v][i].Casos_totales
                               = IF IsNaN(casos_totales_por_pais[v][k].Casos_totales)
                                 THEN Num(0)
                                 ELSE casos_totales_por_pais[v][k].Casos_totales

\* The polygon 'USA' takes the aggregate of 'USA'; the polygon 'usa', whose
\* code differs from it in case only, takes 0.
C3_Witness ==
    /\ pc = "paleta"
    /\ \E v \in Variantes : \E i, j \in 1..Len(paises[v]) :
           /\ paises[v][i].ADM0_ISO = "USA"
           /\ paises[v][i].Casos_totales = Num(2)
           /\ paises[v][j].ADM0_ISO = "usa"
           /\ paises[v][j].Casos_totales = Num(0)

DespuesDeGrafico ==
    pc \in {"agrupar", "unir", "fillna", "paleta", "geojson", "fin"}

\* C4: the sums of the by-date aggregate, none of them missing, add up to
\* the sum of 'Casos totales' over all filtered records (a missing value
\* adds nothing), and the aggregate has exactly one row for every date of
\* the filtered records.
C4_ConservacionPorFecha ==
    DespuesDeGrafico =>
        \A v \in Variantes :
            LET d == datos[v]
                g == casos_totales_por_fecha[v]
            IN  /\ \A k \in 1..Len(g) : ~IsNaN(g[k].Casos_totales)
                /\ SumaSobre([k \in 1..Len(g) |-> Aporte(g[k].Casos_totales)],
                             1..Len(g))
                   = SumaSobre([i \in 1..Len(d) |-> Aporte(d[i].Casos_totales)],
                               1..Len(d))
                /\ {g[k].Fecha : k \in 1..Len(g)} = {d[i].Fecha : i \in 1..Len(d)}
                /\ \A k, l \in 1..Len(g) : g[k].Fecha = g[l].Fecha => k = l

\* Two records of one date, with 1 and 2 cases: one row, with 3.
C4_Witness ==
    /\ pc = "agrupar"
    /\ \E v \in Variantes :
           /\ Len(datos[v]) = 2
           /\ Len(casos_totales_por_fecha[v]) = 1
           /\ casos_totales_por_fecha[v][1].Casos_totales = Num(3)

DespuesDeAgrupar == pc \in {"unir", "fillna", "paleta", "geojson", "fin"}

\* x is the maximum of the 'Casos totales' of the records of d with code c
\* that are not missing, or is missing when all of them are.
EsMaximoDe(x, d, c) ==
    LET I == {i \in 1..Len(d) :
                 d[i].Codigo_ISO = c /\ ~IsNaN(d[i].Casos_totales)}
    IN  IF I = {} THEN IsNaN(x)
        ELSE /\ \E i \in I : d[i].Casos_totales = x
             /\ \A i \in I : Val(d[i].Casos_totales) <= Val(x)

C6_EscalaDegenerada ==
    pc = "fin" =>
        \A v \in Variantes :
            (\A i, j \in 1..Len(mapa[v]) :
                 mapa[v][i].Casos_totales = mapa[v][j].Casos_totales)
            => /\ \A i, j \in 1..Len(mapa[v]) :
                      mapa[v][i].fillColor = mapa[v][j].fillColor
               /\ \A i \in 1..Len(mapa[v]) : ~mapa[v][i].fillColor.error

\* Two polygons of which none matched an aggregate: both have the value 0,
\* and the scale goes from 0 to 0.
C6_Witness ==
    /\ pc = "fin"
    /\ \E v \in Variantes :
           /\ Len(mapa[v]) = 2
           /\ \A i \in 1..2 : mapa[v][i].Casos_totales = Num(0)
           /\ paleta_colores[v].vmin = Num(0)
           /\ paleta_colores[v].vmax = Num(0)

AgregadoSinRepetidos ==
    \A v \in Variantes : \A k, l \in 1..Len(casos_totales_por_pais[v]) :
        casos_totales_por_pais[v][k].Codigo_ISO
            = casos_totales_por_pais[v][l].Codigo_ISO => k = l

\* C9: missing 'Casos totales' are left out of both reductions: the sum of a
\* date is the sum of the values of that date that are not missing, the value
\* of a country is the maximum of its values that are not missing, and no
\* joined value is missing: the polygon of a country whose values are all
\* missing has the value 0.
C9_NulosExcluidos ==
    pc = "fin" =>
        \A v \in Variantes :
            LET d == datos[v]
                f == casos_totales_por_fecha[v]
                g == casos_totales_por_pais[v]
            IN  /\ \A k \in 1..Len(f) :
                       ~IsNaN(f[k].Casos_totales)
                       /\ Val(f[k].Casos_totales)
                          = SumaSobre([i \in 1..Len(d) |-> Val(d[i].Casos_totales)],
                                      {i \in 1..Len(d) :
                                          /\ d[i].Fecha = f[k].Fecha
                                          /\ ~IsNaN(d[i].Casos_totales)})
                /\ \A k \in 1..Len(g) :
                       LET I == {i \in 1..Len(d) :
                                    /\ d[i].Codigo_ISO = g[k].Codigo_ISO
                                    /\ ~IsNaN(d[i].Casos_totales)}
                       IN  /\ I # {} =>
                                /\ ~IsNaN(g[k].Casos_totales)
                                /\ \A i \in I : Val(d[i].Casos_totales)
                                                    <= Val(g[k].Casos_totales)
                                /\ \E i \in I : d[i].Casos_totales
                                                    = g[k].Casos_totales
                           /\ I = {} =>
                                \A i \in 1..Len(mapa[v]) :
                                    mapa[v][i].ADM0_ISO = g[k].Codigo_ISO
                                    => mapa[v][i].Casos_totales = Num(0)
                /\ \A i \in 1..Len(mapa[v]) : ~IsNaN(mapa[v][i].Casos_totales)
                /\ \A i \in 1..Len(paises[v]) : ~IsNaN(paises[v][i].Casos_totales)

\* A date with a missing value and a value of 2, and the polygon of 'USA',
\* whose only record has a missing value, with the value 0.
C9_Witness ==
    /\ pc = "fin"
    /\ \E v \in Variantes : \E i, j \in 1..Len(datos[v]) :
           /\ datos[v][i].Fecha = datos[v][j].Fecha
           /\ datos[v][i].Codigo_ISO = "USA"
           /\ IsNaN(datos[v][i].Casos_totales)
           /\ datos[v][j].Codigo_ISO = "OWID_WRL"
           /\ datos[v][j].Casos_totales = Num(2)
           /\ casos_totales_por_fecha[v][1].Casos_totales = Num(2)
           /\ \E k \in 1..Len(mapa[v]) :
                  /\ mapa[v][k].ADM0_ISO = "USA"
                  /\ mapa[v][k].Casos_totales = Num(0)

\* No polygon's code starts with 'OWID'.
SinPoligonosOWID ==
    \A k \in 1..Len(gpkg) : ~EmpiezaPor(gpkg[k].ADM0_ISO, Prefijo("b"))

\* The rows of the table of variant a whose code starts with 'OWID'.
FilasOWID ==
    {i \in 1..Len(datos["a"]) : EmpiezaPor(datos["a"][i].Codigo_ISO, Prefijo("b"))}

\* The sum the by-date aggregate of variant v has for the date f: 0 when it
\* has no row for f.
SumaDeFecha(v, f) ==
    LET g == casos_totales_por_fecha[v]
    IN  SumaSobre([k \in 1..Len(g) |-> Val(g[k].Casos_totales)],
                  {k \in 1..Len(g) : g[k].Fecha = f})

\* C10: when no polygon's code starts with 'OWID', the two variants give
\* every polygon the same joined value, and with it the same map; the table
\* of variant b is the table of variant a without the rows whose code starts
\* with 'OWID', and for every date the sum of variant a is the sum of
\* variant b plus the cases of those rows.
C10_VariantesIgualesEnElMapa ==
    pc = "fin" =>
        /\ SinPoligonosOWID =>
               /\ Len(mapa["a"]) = Len(mapa["b"])
               /\ \A i \in 1..Len(mapa["a"]) :
                      mapa["a"][i].Casos_totales = mapa["b"][i].Casos_totales
               /\ mapa["a"] = mapa["b"]
        /\ EsSubsecuencia(datos["b"], datos["a"],
                          (1..Len(datos["a"])) \ FilasOWID)
        /\ \A i \in 1..Len(datos["a"]) :
               LET f == datos["a"][i].Fecha
               IN  SumaDeFecha("a", f)
                   = SumaDeFecha("b", f)
                     + SumaSobre([k \in 1..Len(datos["a"]) |->
                                     Aporte(datos["a"][k].Casos_totales)],
                                 {k \in FilasOWID : datos["a"][k].Fecha = f})

\* A country's record and a pseudo-region's, both kept by variant a, and two
\* polygons of which one takes the country's value: the tables and the sums
\* of the variants differ, the maps do not.
C10_Witness ==
    /\ pc = "fin"
    /\ SinPoligonosOWID
    /\ Len(mapa["a"]) = 2
    /\ \E i \in 1..2 : mapa["a"][i].Casos_totales = Num(2)
    /\ Len(datos["a"]) = 2
    /\ Len(datos["b"]) = 1
    /\ casos_totales_por_fecha["a"] # casos_totales_por_fecha["b"]

====
